---- MODULE Spec2Model ----
(***************************************************************************)
(* Model of the anonymizing export pipeline of export_system.py:           *)
(* randomize (the substitution table RANDOMDATA), check_keys, export and   *)
(* the export run of main.                                                 *)
(*                                                                         *)
(* Python str values are TLA+ strings; Len, SubSeq and \o act on them as   *)
(* on sequences of characters.  A Python value is a record                 *)
(*   [t |-> type tag, s |-> text, n |-> number, c |-> children].           *)
(***************************************************************************)
EXTENDS Integers, Sequences, FiniteSets, TLC

VARIABLES
  RANDOMIZE,   \* the global flag RANDOMIZE
  RANDOMDATA,  \* the global dict RANDOMDATA
  call,        \* the last call made, with its outcome
  ncalls,      \* number of calls made in the run
  pool,        \* the pool the calls of the run are drawn from
  wifilog,     \* the wifi names generated so far, in order
  pc,          \* main: index of the next export step of the run
  result,      \* main: "running", or how main ended
  step,        \* main: the last export step taken, with its outcome
  written,     \* main: <<original, text written for it>> of the strings in the files
  emitted,     \* main: the table the summary at the end of the run has logged
  mon          \* solarbank_monitor.main: its globals, locals and position

vars ==
  <<RANDOMIZE, RANDOMDATA, call, ncalls, pool, wifilog, pc, result, step, written, emitted,
    mon>>

mainVars == <<pc, result, step, written, emitted, mon>>

(***************************************************************************)
(* Bounds of the model.                                                    *)
(***************************************************************************)
\* random.choices draws from the first AlphaSize characters of an alphabet
AlphaSize == 2
\* number of randomize calls in one run
MaxCalls == 3

(***************************************************************************)
(* Python values.                                                          *)
(***************************************************************************)
PyS(s) == [t |-> "str", s |-> s, n |-> 0, c |-> <<>>]
PyI(n) == [t |-> "int", s |-> "", n |-> n, c |-> <<>>]
PyB(b) == [t |-> "bool", s |-> "", n |-> IF b THEN 1 ELSE 0, c |-> <<>>]
PyNone == [t |-> "none", s |-> "", n |-> 0, c |-> <<>>]
\* a float carries its repr in s and its truth value in n
PyF(repr, nz) == [t |-> "float", s |-> repr, n |-> nz, c |-> <<>>]
\* a list holds its elements, a dict its <<key, value>> items in insertion order
PyL(items) == [t |-> "list", s |-> "", n |-> 0, c |-> items]
PyD(items) == [t |-> "dict", s |-> "", n |-> 0, c |-> items]

\* bool(v)
Truthy(v) ==
  CASE v.t = "str" -> v.s # ""
    [] v.t \in {"int", "bool", "float"} -> v.n # 0
    [] v.t = "none" -> FALSE
    [] OTHER -> v.c # <<>>

\* lists and dicts cannot be dictionary keys
Hashable(v) == v.t \notin {"list", "dict"}

\* dictionary keys compare with ==, under which True == 1 and False == 0
PyKey(v) == IF v.t = "bool" THEN PyI(v.n) ELSE v

RECURSIVE IntStr(_)
IntStr(n) ==
  IF n < 0 THEN "-" \o IntStr(0 - n)
  ELSE IF n < 10 THEN SubSeq("0123456789", n + 1, n + 1)
  ELSE IntStr(n \div 10) \o SubSeq("0123456789", (n % 10) + 1, (n % 10) + 1)

RECURSIVE PyRepr(_)
RECURSIVE ReprItems(_, _)
\* ", ".join of the reprs of a list's elements or a dict's items
ReprItems(items, isDict) ==
  IF items = <<>> THEN ""
  ELSE LET h == Head(items)
           one == IF isDict THEN "'" \o h[1] \o "': " \o PyRepr(h[2]) ELSE PyRepr(h)
       IN IF Len(items) = 1 THEN one ELSE one \o ", " \o ReprItems(Tail(items), isDict)

\* repr(v)
PyRepr(v) ==
  CASE v.t = "str" -> "'" \o v.s \o "'"
    [] v.t = "int" -> IntStr(v.n)
    [] v.t = "bool" -> IF v.n = 1 THEN "True" ELSE "False"
    [] v.t = "none" -> "None"
    [] v.t = "float" -> v.s
    [] v.t = "list" -> "[" \o ReprItems(v.c, FALSE) \o "]"
    [] OTHER -> "{" \o ReprItems(v.c, TRUE) \o "}"

\* str(v)
PyStr(v) == IF v.t = "str" THEN v.s ELSE PyRepr(v)

(***************************************************************************)
(* json.dump(d, file, indent=2): the text written to the file.             *)
(***************************************************************************)
RECURSIVE JsonEscape(_)
\* the escapes of a quote and a backslash inside a JSON string
JsonEscape(s) ==
  IF s = "" THEN ""
  ELSE (IF SubSeq(s, 1, 1) \in {"\"", "\\"} THEN "\\" ELSE "")
         \o SubSeq(s, 1, 1) \o JsonEscape(Tail(s))

JsonStr(s) == "\"" \o JsonEscape(s) \o "\""

RECURSIVE JsonDump(_, _)
RECURSIVE JsonItems(_, _, _)
\* the elements of a list or the items of a dict, one per line at indentation ind
JsonItems(items, isDict, ind) ==
  LET h == Head(items)
      one == ind \o (IF isDict THEN JsonStr(h[1]) \o ": " \o JsonDump(h[2], ind)
                     ELSE JsonDump(h, ind))
  IN IF Len(items) = 1 THEN one ELSE one \o ",\n" \o JsonItems(Tail(items), isDict, ind)

\* the text of value v, its own line being indented by ind
JsonDump(v, ind) ==
  CASE v.t = "str" -> JsonStr(v.s)
    [] v.t = "int" -> IntStr(v.n)
    [] v.t = "bool" -> IF v.n = 1 THEN "true" ELSE "false"
    [] v.t = "none" -> "null"
    [] v.t = "float" -> v.s
    [] v.t = "list" ->
         IF v.c = <<>> THEN "[]"
         ELSE "[\n" \o JsonItems(v.c, FALSE, ind \o "  ") \o "\n" \o ind \o "]"
    [] OTHER ->
         IF v.c = <<>> THEN "{}"
         ELSE "{\n" \o JsonItems(v.c, TRUE, ind \o "  ") \o "\n" \o ind \o "}"

(***************************************************************************)
(* Python str methods.                                                     *)
(***************************************************************************)
\* t in s
Contains(s, t) ==
  \E i \in 1..(Len(s) - Len(t) + 1) : SubSeq(s, i, i + Len(t) - 1) = t

RECURSIVE Interleave(_, _)
\* s.replace("", new) puts new before every character and at the end
Interleave(s, new) ==
  IF s = "" THEN new ELSE new \o SubSeq(s, 1, 1) \o Interleave(Tail(s), new)

RECURSIVE ReplaceFrom(_, _, _)
ReplaceFrom(s, old, new) ==
  IF Len(s) < Len(old) THEN s
  ELSE IF SubSeq(s, 1, Len(old)) = old
       THEN new \o ReplaceFrom(SubSeq(s, Len(old) + 1, Len(s)), old, new)
       ELSE SubSeq(s, 1, 1) \o ReplaceFrom(Tail(s), old, new)

\* s.replace(old, new): leftmost non-overlapping occurrences
Replace(s, old, new) ==
  IF old = "" THEN Interleave(s, new) ELSE ReplaceFrom(s, old, new)

RECURSIVE SplitAcc(_, _, _)
SplitAcc(s, sep, cur) ==
  IF s = "" THEN <<cur>>
  ELSE IF SubSeq(s, 1, 1) = sep THEN <<cur>> \o SplitAcc(Tail(s), sep, "")
  ELSE SplitAcc(Tail(s), sep, cur \o SubSeq(s, 1, 1))

\* s.split(sep) for a one-character separator
Split(s, sep) == SplitAcc(s, sep, "")

RECURSIVE Join(_, _)
\* sep.join(parts)
Join(sep, parts) ==
  IF parts = <<>> THEN ""
  ELSE IF Len(parts) = 1 THEN parts[1]
  ELSE parts[1] \o sep \o Join(sep, Tail(parts))

(***************************************************************************)
(* random.choices(alphabet, k = n), joined to a string.                    *)
(***************************************************************************)
\* string.ascii_uppercase + string.digits
UpperDigits == "ABCDEFGHIJKLMNOPQRSTUVWXYZ0123456789"
\* string.hexdigits.upper()
HexUpper == "0123456789ABCDEFABCDEF"
\* string.hexdigits.lower()
HexLower == "0123456789abcdefabcdef"
\* string.ascii_letters
Letters == "abcdefghijklmnopqrstuvwxyzABCDEFGHIJKLMNOPQRSTUVWXYZ"

Chars(alphabet) ==
  {SubSeq(alphabet, i, i) : i \in 1..(IF AlphaSize < Len(alphabet) THEN AlphaSize ELSE Len(alphabet))}

RECURSIVE Choices(_, _)
\* every string random.choices can produce
Choices(alphabet, n) ==
  IF n = 0 THEN {""}
  ELSE {ch \o r : ch \in Chars(alphabet), r \in Choices(alphabet, n - 1)}

(***************************************************************************)
(* The substitution table RANDOMDATA: a dict, kept as the sequence of its  *)
(* items [old, new] in insertion order.                                    *)
(***************************************************************************)
HasKey(tab, v) == \E i \in 1..Len(tab) : PyKey(tab[i].old) = PyKey(v)

\* RANDOMDATA.get(v, default)
Get(tab, v, default) ==
  IF HasKey(tab, v)
  THEN tab[CHOOSE i \in 1..Len(tab) : PyKey(tab[i].old) = PyKey(v)].new
  ELSE default

\* RANDOMDATA.update({v: new}): an existing key keeps its place
Update(tab, v, new) ==
  IF HasKey(tab, v)
  THEN [i \in 1..Len(tab) |->
          IF PyKey(tab[i].old) = PyKey(v) THEN [old |-> tab[i].old, new |-> new] ELSE tab[i]]
  ELSE Append(tab, [old |-> v, new |-> new])

(***************************************************************************)
(* randomize(val, key): the set of outcomes [err, ret, tab] the call can   *)
(* have with substitution table tab; err names the exception raised        *)
(* ("" when the call returns ret), tab is the table after the call.        *)
(***************************************************************************)
Return(ret, tab) == [err |-> "", ret |-> ret, tab |-> tab, gen |-> ""]
Raise(exc, tab) == [err |-> exc, ret |-> PyNone, tab |-> tab, gen |-> ""]

\* the outcomes of a branch of the if/elif chain, marked with the branch taken
Branch(name, outcomes) == {[o EXCEPT !.gen = name] : o \in outcomes}

\* return randomstr or str(val)
OrStr(randomstr, val) == IF randomstr # "" THEN randomstr ELSE PyStr(val)

\* RANDOMDATA.update({val: randomstr}); return randomstr or str(val)
Register(val, randomstr, tab) ==
  Return(PyS(OrStr(randomstr, val)), Update(tab, val, randomstr))

\* a serial branch that draws from the letters of the default strategy
SerialBranch_letters(val, tab) ==
  IF val.t # "str" THEN {Raise("TypeError", tab)}
  ELSE {Register(val, r, tab) : r \in Choices(Letters, Len(val.s))}

\* "_sn" in key or key in ["sn"]
SerialBranch(val, tab) ==
  IF val.t # "str" THEN {Raise("TypeError", tab)}
  ELSE {Register(val, r, tab) : r \in Choices(UpperDigits, Len(val.s))}

RECURSIVE PairUp(_)
\* [a + b for a, b in zip(r[::2], r[1::2])]
PairUp(r) ==
  IF Len(r) < 2 THEN <<>> ELSE <<SubSeq(r, 1, 2)>> \o PairUp(SubSeq(r, 3, Len(r)))

\* "bt_ble_" in key
\* a Bluetooth strategy that draws a new string without the retry in the table
BtBranch_fresh(val, tab) ==
  IF val.t # "str" THEN {Raise("AttributeError", tab)}
  ELSE LET temp == Replace(val.s, ":", "")
       IN {IF Contains(val.s, ":")
           THEN Register(val, Join(":", PairUp(r)), Update(tab, PyS(temp), r))
           ELSE Register(val, r, tab) : r \in Choices(HexUpper, Len(temp))}

BtBranch(val, tab) ==
  IF val.t # "str" THEN {Raise("AttributeError", tab)}
  ELSE LET temp == Replace(val.s, ":", "")
           known == Get(tab, PyS(temp), "")
           fresh == IF known # "" THEN {known} ELSE Choices(HexUpper, Len(temp))
       IN {IF Contains(val.s, ":")
           THEN Register(val, Join(":", PairUp(r)), Update(tab, PyS(temp), r))
           ELSE Register(val, r, tab) : r \in fresh}

RECURSIVE IdParts(_, _)
\* the loop over val.split("-"): randomstr is extended part by part
IdParts(parts, randomstr) ==
  IF parts = <<>> THEN {randomstr}
  ELSE UNION {IdParts(Tail(parts),
                      IF randomstr # "" THEN Join("-", <<randomstr, r>>) ELSE r)
              : r \in Choices(HexLower, Len(Head(parts)))}

\* "_id" in key
IdBranch(val, tab) ==
  IF val.t # "str" THEN {Raise("AttributeError", tab)}
  ELSE {Register(val, r, tab) : r \in IdParts(Split(val.s, "-"), "")}

\* a count of all entries of the table
WifiCount_all(tab) == Len(tab)

\* sum(1 for s in RANDOMDATA.values() if "wifi-network-" in s)
WifiCount(tab) == Cardinality({i \in 1..Len(tab) : Contains(tab[i].new, "wifi-network-")})

\* "wifi_name" in key
WifiBranch(val, tab) ==
  {Register(val, "wifi-network-" \o IntStr(WifiCount(tab) + 1), tab)}

\* length of the trace ids the blob replacement skips
TraceIdLen == 32

RECURSIVE BlobLoop(_, _, _)
\* the loop over RANDOMDATA.items(), from item i on, randomstr being cur
BlobLoop(tab, i, cur) ==
  IF i > Len(tab) THEN Return(cur, tab)
  ELSE IF tab[i].old.t # "str" THEN Raise("TypeError", tab)
  ELSE IF Len(tab[i].old.s) = TraceIdLen THEN BlobLoop(tab, i + 1, cur)
  ELSE IF cur.t # "str" THEN Raise("AttributeError", tab)
  ELSE BlobLoop(tab, i + 1, PyS(Replace(cur.s, tab[i].old.s, tab[i].new)))

BlobKeys == {"home_load_data", "param_data"}

\* key in ["home_load_data", "param_data"]
BlobBranch(val, tab) == {BlobLoop(tab, 1, val)}

\* default randomize format
DefaultBranch(val, tab) ==
  IF val.t # "str" THEN {Raise("TypeError", tab)}
  ELSE {Register(val, r, tab) : r \in Choices(Letters, Len(val.s))}

\* an if/elif chain that tests "_id" before "bt_ble_"
Generate_idfirst(val, key, tab) ==
  IF Contains(key, "_sn") \/ key = "sn" THEN Branch("serial", SerialBranch(val, tab))
  ELSE IF Contains(key, "_id") THEN Branch("id", IdBranch(val, tab))
  ELSE IF Contains(key, "bt_ble_") THEN Branch("bt", BtBranch(val, tab))
  ELSE IF Contains(key, "wifi_name") THEN Branch("wifi", WifiBranch(val, tab))
  ELSE IF key \in BlobKeys THEN Branch("blob", BlobBranch(val, tab))
  ELSE Branch("default", DefaultBranch(val, tab))

\* the if/elif chain that generates a new random string
Generate(val, key, tab) ==
  IF Contains(key, "_sn") \/ key = "sn" THEN Branch("serial", SerialBranch(val, tab))
  ELSE IF Contains(key, "bt_ble_") THEN Branch("bt", BtBranch(val, tab))
  ELSE IF Contains(key, "_id") THEN Branch("id", IdBranch(val, tab))
  ELSE IF Contains(key, "wifi_name") THEN Branch("wifi", WifiBranch(val, tab))
  ELSE IF key \in BlobKeys THEN Branch("blob", BlobBranch(val, tab))
  ELSE Branch("default", DefaultBranch(val, tab))

\* a chain without the device_name exemption
NotExempt_none(key) == TRUE

\* key not in ["device_name"]
NotExempt(key) == key # "device_name"

\* a disabled randomize that still looks the value up in the table
Disabled_lookup(val, tab) == {Return(PyS(OrStr(Get(tab, val, ""), val)), tab)}

\* if not RANDOMIZE: return str(val)
Disabled(val, tab) == {Return(PyS(PyStr(val)), tab)}

randomize(val, key, enabled, tab) ==
  IF ~enabled THEN Disabled(val, tab)
  ELSE IF ~Hashable(val) THEN {Raise("TypeError", tab)}
  ELSE LET randomstr == Get(tab, val, "")
       IN IF randomstr = "" /\ Truthy(val) /\ NotExempt(key)
          THEN Generate(val, key, tab)
          ELSE {Return(PyS(OrStr(randomstr, val)), tab)}

(***************************************************************************)
(* check_keys(data): the set of outcomes [err, doc, tab]; doc is the       *)
(* document as the call leaves it (it is changed in place).                *)
(***************************************************************************)
\* the key patterns whose values are randomized
SensitivePatterns ==
  {"_sn", "site_id", "trace_id", "bt_ble_", "wifi_name", "home_load_data",
   "param_data", "device_name"}

\* any(x in k for x in [...]) or k in ["sn"]
Sensitive(k) == (\E x \in SensitivePatterns : Contains(k, x)) \/ k = "sn"

Checked(doc, tab) == [err |-> "", doc |-> doc, tab |-> tab]
Failed(exc, doc, tab) == [err |-> exc, doc |-> doc, tab |-> tab]

\* data[k] = v for the i-th item of a dict
SetItem(data, i, v) == [data EXCEPT !.c[i] = <<data.c[i][1], v>>]

RECURSIVE check_keys(_, _, _)
RECURSIVE CheckList(_, _, _, _)
RECURSIVE CheckItems(_, _, _, _)

\* [check_keys(i) for i in v], from element i on
CheckList(v, i, enabled, tab) ==
  IF i > Len(v.c) THEN {Checked(v, tab)}
  ELSE UNION {IF o.err # "" THEN {Failed(o.err, [v EXCEPT !.c[i] = o.doc], o.tab)}
              ELSE CheckList([v EXCEPT !.c[i] = o.doc], i + 1, enabled, o.tab)
              : o \in check_keys(v.c[i], enabled, tab)}

\* a recursion that hands every leaf on as text
Descend_text(v, enabled, tab) ==
  IF v.t = "dict" THEN check_keys(v, enabled, tab)
  ELSE IF v.t = "list" THEN CheckList(v, 1, enabled, tab)
  ELSE {Checked(PyS(PyStr(v)), tab)}

\* the value of one item after the recursion into a dict or a list
Descend(v, enabled, tab) ==
  IF v.t = "dict" THEN check_keys(v, enabled, tab)
  ELSE IF v.t = "list" THEN CheckList(v, 1, enabled, tab)
  ELSE {Checked(v, tab)}

\* the loop over data.copy().items(), from item i on
CheckItems(data, i, enabled, tab) ==
  IF i > Len(data.c) THEN {Checked(data, tab)}
  ELSE LET k == data.c[i][1]
       IN UNION {
            IF d.err # "" THEN {Failed(d.err, SetItem(data, i, d.doc), d.tab)}
            ELSE IF Sensitive(k)
            THEN UNION {IF r.err # ""
                        THEN {Failed(r.err, SetItem(data, i, d.doc), r.tab)}
                        ELSE CheckItems(SetItem(data, i, r.ret), i + 1, enabled, r.tab)
                        : r \in randomize(d.doc, k, enabled, d.tab)}
            ELSE CheckItems(SetItem(data, i, d.doc), i + 1, enabled, d.tab)
            : d \in Descend(data.c[i][2], enabled, tab)}

check_keys(data, enabled, tab) ==
  IF data.t \in {"int", "bool", "str"} THEN {Checked(data, tab)}
  ELSE IF data.t # "dict" THEN {Failed("AttributeError", data, tab)}
  ELSE CheckItems(data, 1, enabled, tab)

(***************************************************************************)
(* export(filename, d, skip_randomize, randomkeys): the set of outcomes    *)
(* [err, doc, tab, saved, oserr, content, mid]; doc is the document handed *)
(* to json.dump, saved tells that the file was written, content is its     *)
(* text, oserr tells that open or json.dump raised OSError, which export   *)
(* logs and swallows, mid is the document before the renaming of its keys. *)
(***************************************************************************)
\* an export that wrote no file
NotSaved(exc, doc, tab) ==
  [err |-> exc, doc |-> doc, tab |-> tab, saved |-> FALSE, oserr |-> FALSE, content |-> "",
   mid |-> doc]

\* a write that lets the OSError out
Dump_raise(doc, tab) ==
  {[err |-> "", doc |-> doc, tab |-> tab, saved |-> TRUE, oserr |-> FALSE,
    content |-> JsonDump(doc, ""), mid |-> doc],
   [err |-> "OSError", doc |-> doc, tab |-> tab, saved |-> FALSE, oserr |-> TRUE,
    content |-> "", mid |-> doc]}

\* the try / except OSError around open and json.dump
Dump(doc, tab) ==
  {[err |-> "", doc |-> doc, tab |-> tab, saved |-> ~failed, oserr |-> failed,
    content |-> IF failed THEN "" ELSE JsonDump(doc, ""), mid |-> doc]
   : failed \in BOOLEAN}

(***************************************************************************)
(* The renaming of keys (randomkeys): the outcomes are [err, doc].         *)
(***************************************************************************)
\* d.get(key)
DictGet(d, key) ==
  IF \E i \in 1..Len(d.c) : d.c[i][1] = key
  THEN d.c[CHOOSE i \in 1..Len(d.c) : d.c[i][1] = key][2]
  ELSE PyNone

\* key in d
DictHas(d, key) == \E i \in 1..Len(d.c) : d.c[i][1] = key

\* d.pop(key): d without the item
DictPop(d, key) == [d EXCEPT !.c = SelectSeq(d.c, LAMBDA it : it[1] # key)]

\* d[key] = v: an existing key keeps its place, a new one goes to the end
DictSet(d, key, v) ==
  IF DictHas(d, key)
  THEN [d EXCEPT !.c = [i \in 1..Len(d.c) |->
                          IF d.c[i][1] = key THEN <<key, v>> ELSE d.c[i]]]
  ELSE [d EXCEPT !.c = Append(d.c, <<key, v>>)]

\* d[new] = d.pop(key)
MoveKey(d, key, new) == DictSet(DictPop(d, key), new, DictGet(d, key))

Renamed(doc) == [err |-> "", doc |-> doc]
RenameFailed(exc, doc) == [err |-> exc, doc |-> doc]

\* the number of elements a value yields when iterated, -1 when it yields none
IterLen(v) ==
  CASE v.t = "str" -> Len(v.s)
    [] v.t \in {"list", "dict"} -> Len(v.c)
    [] OTHER -> 0 - 1

\* dict(val): [err, items]; a list whose elements all are pairs is not covered
DictOf(val) ==
  CASE val.t = "dict" -> [err |-> "", items |-> val.c]
    [] val.t = "str" /\ val.s = "" -> [err |-> "", items |-> <<>>]
    [] val.t = "str" /\ val.s # "" -> [err |-> "ValueError", items |-> <<>>]
    [] val.t = "list" /\ val.c = <<>> -> [err |-> "", items |-> <<>>]
    [] val.t = "list" /\ (\E i \in 1..Len(val.c) : IterLen(val.c[i]) # 2) ->
         LET i == CHOOSE j \in 1..Len(val.c) :
                    /\ IterLen(val.c[j]) # 2
                    /\ \A k \in 1..(j - 1) : IterLen(val.c[k]) = 2
         IN [err |-> IF IterLen(val.c[i]) < 0 THEN "TypeError" ELSE "ValueError",
             items |-> <<>>]
    [] val.t \in {"int", "bool", "float", "none"} -> [err |-> "TypeError", items |-> <<>>]

RECURSIVE RenameNested(_, _, _, _, _)
\* for k in [the keys of nested_val]: if k in RANDOMDATA:
\*   d_copy[key][nested_key][RANDOMDATA[k]] = d_copy[key][nested_key].pop(k)
RenameNested(copy, key, nested_key, ks, tab) ==
  IF ks = <<>> THEN Renamed(copy)
  ELSE IF ~HasKey(tab, PyS(Head(ks))) THEN RenameNested(copy, key, nested_key, Tail(ks), tab)
  ELSE LET k == Head(ks)
           cv == DictGet(copy, key)
           target == DictGet(cv, nested_key)
       IN IF cv.t # "dict" THEN RenameFailed("TypeError", copy)
          ELSE IF ~DictHas(cv, nested_key) THEN RenameFailed("KeyError", copy)
          ELSE IF target.t = "list" THEN RenameFailed("TypeError", copy)
          ELSE IF target.t # "dict" THEN RenameFailed("AttributeError", copy)
          ELSE IF ~DictHas(target, k) THEN RenameFailed("KeyError", copy)
          ELSE RenameNested(
                 DictSet(copy, key,
                         DictSet(cv, nested_key, MoveKey(target, k, Get(tab, PyS(k), "")))),
                 key, nested_key, Tail(ks), tab)

RECURSIVE RenameValue(_, _, _, _)
\* for nested_key, nested_val in dict(val).items(): if isinstance(nested_val, dict)
RenameValue(copy, key, items, tab) ==
  IF items = <<>> THEN Renamed(copy)
  ELSE LET nested_key == Head(items)[1]
           nested_val == Head(items)[2]
           o == IF nested_val.t = "dict"
                THEN RenameNested(copy, key, nested_key,
                                  [i \in 1..Len(nested_val.c) |-> nested_val.c[i][1]], tab)
                ELSE Renamed(copy)
       IN IF o.err # "" THEN o ELSE RenameValue(o.doc, key, Tail(items), tab)

RECURSIVE RenameRoot(_, _, _, _)
\* for key, val in d.items(), from item i on; copy is d_copy
RenameRoot(d, i, copy, tab) ==
  IF i > Len(d.c) THEN Renamed(copy)
  ELSE LET key == d.c[i][1]
           items == DictOf(d.c[i][2])
           o == IF items.err # "" THEN RenameFailed(items.err, copy)
                ELSE RenameValue(copy, key, items.items, tab)
       IN IF o.err # "" THEN o
          ELSE RenameRoot(d, i + 1,
                          IF HasKey(tab, PyS(key))
                          THEN MoveKey(o.doc, key, Get(tab, PyS(key), ""))
                          ELSE o.doc,
                          tab)

\* if randomkeys: d_copy = d.copy(); ...; d = d_copy
RenameKeys(d, tab) == RenameRoot(d, 1, d, tab)

\* no document is taken for an empty one
IsEmpty_never(d) == FALSE

\* if not d: d = {} and then len(d) == 0
IsEmpty(d) == ~Truthy(d)

\* every export of an anonymizing run is sanitized
Sanitizes_always(enabled, skip_randomize) == enabled

\* a condition that sanitizes when either anonymization is on or nothing is skipped
Sanitizes_either(enabled, skip_randomize) == enabled \/ ~skip_randomize

\* if RANDOMIZE and not skip_randomize
Sanitizes(enabled, skip_randomize) == enabled /\ ~skip_randomize

\* the outcomes of the write of a sanitized document, after the renaming of its keys
Renaming(mid, randomkeys, tab) ==
  IF ~randomkeys THEN {[o EXCEPT !.mid = mid] : o \in Dump(mid, tab)}
  ELSE LET r == RenameKeys(mid, tab)
       IN IF r.err # "" THEN {[NotSaved(r.err, r.doc, tab) EXCEPT !.mid = mid]}
          ELSE {[o EXCEPT !.mid = mid] : o \in Dump(r.doc, tab)}

export(d, skip_randomize, randomkeys, enabled, tab) ==
  IF IsEmpty(d) THEN {NotSaved("", PyD(<<>>), tab)}
  ELSE IF Sanitizes(enabled, skip_randomize)
  THEN UNION {IF o.err # "" THEN {NotSaved(o.err, o.doc, o.tab)}
              ELSE Renaming(o.doc, randomkeys, o.tab)
              : o \in check_keys(d, enabled, tab)}
  ELSE Dump(d, tab)

(***************************************************************************)
(* A run of randomize calls on the process-wide table.                     *)
(***************************************************************************)
\* key hints the calls are made with
Keys ==
  {"device_name", "sn", "device_sn", "bt_ble_id", "site_id", "wifi_name",
   "home_load_data", "param_data", "alias"}

\* values every key hint is tried with
Vals == {PyS("0"), PyS("-"), PyS(""), PyI(5), PyNone, PyL(<<>>)}

\* identifiers with "-"-separated segments, and their key hints
IdVals == {PyS("1"), PyS("-0"), PyS("0-1")}
IdKeys == {"site_id", "device_name", "param_data"}

\* Bluetooth addresses, with and without colons, and their key hints
BtVals == {PyS("01:10"), PyS("0110"), PyS("0:1"), PyS("01")}
BtKeys == {"bt_ble_id", "bt_ble_mac", "device_name", "wifi_name"}

\* no summary logged
NoSummary == [done |-> FALSE, tab |-> <<>>]

\* no step of main taken
NoStep == [name |-> "", idx |-> 0, outcome |-> "", file |-> ""]

\* the monitor is not part of the run
NoMonitor == [at |-> ""]

\* main is not part of the run
NoMain ==
  /\ pc = 0 /\ result = "" /\ step = NoStep /\ written = {} /\ emitted = NoSummary
  /\ mon = NoMonitor

\* serials of several lengths, and key hints with and without a serial marker
SerialVals == {PyS("AB12"), PyS("K"), PyS("")}
SerialKeys == {"sn", "device_sn", "main_sn_x", "serial", "device_name"}

\* values and key hints of the calls made around a change of RANDOMIZE
RerunVals == {PyS("0"), PyS("1"), PyI(5), PyL(<<>>)}
RerunKeys == {"sn", "wifi_name", "device_name", "param_data", "alias"}

\* the calls of a run are drawn from one of these pools
\* key hints that carry several markers, or a marker inside a longer name
MarkerVals == {PyS("K"), PyS("-")}
MarkerKeys ==
  {"device_name", "device_name_sn", "bt_ble_sn", "bt_ble_id", "wifi_name_id",
   "wifi_name_x", "param_data", "param_data_x", "home_load_data_id"}

\* an address with and without its colon, for runs that also export
TableVals == {PyS("0:1"), PyS("01")}
TableKeys == {"bt_ble_mac", "wifi_name"}

Pools == {"general", "bluetooth", "serial", "markers"}
Calls(p) ==
  CASE p = "general" -> (Vals \X Keys) \cup (IdVals \X IdKeys)
    [] p = "bluetooth" -> BtVals \X BtKeys
    [] p = "serial" -> SerialVals \X SerialKeys
    [] p = "markers" -> MarkerVals \X MarkerKeys
    [] p = "table" -> TableVals \X TableKeys
    [] OTHER -> RerunVals \X RerunKeys

\* the last call: its arguments, the table before it, and its outcome
NoCall ==
  [op |-> "none", val |-> PyNone, key |-> "", skip |-> FALSE, enabled |-> FALSE,
   pre |-> <<>>,
   err |-> "", ret |-> PyNone, gen |-> "", saved |-> FALSE, oserr |-> FALSE,
   content |-> "", randomkeys |-> FALSE, mid |-> PyNone]

Init ==
  /\ RANDOMIZE \in BOOLEAN
  /\ RANDOMDATA = <<>>
  /\ call = NoCall
  /\ ncalls = 0
  /\ pool \in Pools
  /\ wifilog = <<>>
  /\ NoMain

\* one call randomize(val, key)
Randomize ==
  /\ ncalls < MaxCalls
  /\ \E c \in Calls(pool) :
       \E o \in randomize(c[1], c[2], RANDOMIZE, RANDOMDATA) :
         /\ RANDOMDATA' = o.tab
         /\ call' = [NoCall EXCEPT !.op = "randomize", !.val = c[1], !.key = c[2],
                                    !.enabled = RANDOMIZE, !.pre = RANDOMDATA, !.err = o.err, !.ret = o.ret,
                                    !.gen = o.gen]
         /\ wifilog' = IF o.gen = "wifi" /\ o.err = ""
                        THEN Append(wifilog, o.ret.s) ELSE wifilog
  /\ ncalls' = ncalls + 1
  /\ UNCHANGED <<RANDOMIZE, pool, mainVars>>

Next == Randomize

Spec == Init /\ [][Next]_vars

(***************************************************************************)
(* randomize calls in a process in which main runs more than once: every   *)
(* run of main asks whether to randomize and may change RANDOMIZE, while   *)
(* RANDOMDATA keeps the entries of the earlier runs.                       *)
(***************************************************************************)
RECURSIVE Upper(_)
\* resp.upper()
Upper(s) ==
  IF s = "" THEN ""
  ELSE LET c == SubSeq(s, 1, 1)
           lower == "abcdefghijklmnopqrstuvwxyz"
           at == {i \in 1..Len(lower) : SubSeq(lower, i, i) = c}
       IN (IF at = {} THEN c
           ELSE SubSeq("ABCDEFGHIJKLMNOPQRSTUVWXYZ", CHOOSE i \in at : TRUE,
                       CHOOSE i \in at : TRUE))
            \o Upper(Tail(s))

\* the answers given to the prompt of main
Answers == {"", "y", "Yes", "true", "n", "no", "1"}

InitRerun ==
  /\ RANDOMIZE = TRUE
  /\ RANDOMDATA = <<>>
  /\ call = NoCall
  /\ ncalls = 0
  /\ pool = "rerun"
  /\ wifilog = <<>>
  /\ NoMain

\* resp = input(...); if resp != "": RANDOMIZE = resp.upper() in [...]
Prompt ==
  /\ \E resp \in Answers :
       RANDOMIZE' = IF resp # "" THEN Upper(resp) \in {"Y", "YES", "TRUE"} ELSE RANDOMIZE
  /\ UNCHANGED <<RANDOMDATA, call, ncalls, pool, wifilog, mainVars>>

NextRerun == Prompt \/ Randomize

SpecRerun == InitRerun /\ [][NextRerun]_vars

(***************************************************************************)
(* A run of export calls on documents as the API client returns them.      *)
(***************************************************************************)
\* number of export calls in one run
MaxExports == 2

Docs ==
  {PyNone,
   PyD(<<>>),
   PyD(<< <<"device_sn", PyS("0")>>, <<"device_name", PyS("K")>> >>),
   PyD(<< <<"param_data", PyS("0")>>, <<"device_sn", PyS("0")>> >>),
   PyD(<< <<"code", PyI(0)>>,
          <<"data", PyD(<< <<"site_id", PyS("0-1")>>,
                           <<"power", PyF("1.5", 1)>>,
                           <<"flag", PyB(TRUE)>>,
                           <<"extra", PyNone>>,
                           <<"list", PyL(<<PyD(<< <<"sn", PyS("0")>> >>), PyI(1), PyS("x")>>)>>
                        >>)>> >>),
   PyD(<< <<"device_sn", PyI(5)>> >>),
   PyD(<< <<"device_name", PyNone>> >>),
   PyD(<< <<"wifi_name", PyL(<<PyS("a")>>)>> >>),
   PyD(<< <<"solarbank_info", PyD(<< <<"solarbank_sn", PyD(<<>>)>> >>)>> >>),
   PyD(<< <<"values", PyL(<<PyF("1.5", 1)>>)>> >>),
   PyD(<< <<"values", PyL(<<PyNone>>)>> >>),
   PyD(<< <<"values", PyL(<<PyL(<<PyI(1)>>)>>)>> >>),
   \* dictionaries keyed by serials, as myapi.sites and myapi.devices are
   PyD(<< <<"0", PyD(<< <<"device_sn", PyS("0")>>,
                        <<"x", PyD(<< <<"0", PyI(1)>>, <<"y", PyI(2)>> >>)>> >>)>> >>),
   PyD(<< <<"s", PyD(<< <<"0", PyD(<< <<"device_sn", PyS("0")>> >>)>> >>)>> >>),
   PyD(<< <<"0", PyD(<< <<"device_sn", PyS("0")>> >>)>>,
          <<"A", PyD(<< <<"x", PyD(<< <<"0", PyI(1)>> >>)>> >>)>> >>)}

InitDoc ==
  /\ RANDOMIZE \in BOOLEAN
  /\ RANDOMDATA = <<>>
  /\ call = NoCall
  /\ ncalls = 0
  /\ pool = "documents"
  /\ wifilog = <<>>
  /\ NoMain

\* one call export(filename, d, skip_randomize, randomkeys)
Export ==
  /\ ncalls < MaxExports
  /\ \E d \in Docs, skip \in BOOLEAN, randomkeys \in BOOLEAN :
       \E o \in export(d, skip, randomkeys, RANDOMIZE, RANDOMDATA) :
         /\ RANDOMDATA' = o.tab
         /\ call' = [NoCall EXCEPT !.op = "export", !.val = d, !.skip = skip,
                                    !.enabled = RANDOMIZE, !.pre = RANDOMDATA, !.err = o.err, !.ret = o.doc,
                                    !.saved = o.saved, !.oserr = o.oserr,
                                    !.content = o.content, !.randomkeys = randomkeys,
                                    !.mid = o.mid]
  /\ ncalls' = ncalls + 1
  /\ UNCHANGED <<RANDOMIZE, pool, wifilog, mainVars>>

NextDoc == Export

SpecDoc == InitDoc /\ [][NextDoc]_vars

(***************************************************************************)
(* Runs that mix randomize calls and export calls on one table.            *)
(***************************************************************************)
InitTable ==
  /\ RANDOMIZE = TRUE
  /\ RANDOMDATA = <<>>
  /\ call = NoCall
  /\ ncalls = 0
  /\ pool = "table"
  /\ wifilog = <<>>
  /\ NoMain

NextTable == Randomize \/ Export

SpecTable == InitTable /\ [][NextTable]_vars

(***************************************************************************)
(* The export run of main, from the first export on: the sites and devices *)
(* are known, every step requests one document and exports it.             *)
(***************************************************************************)
\* myapi.sites: the site ids
SiteIds == <<"1", "3">>

\* myapi.devices: serial, site and whether the device is a solarbank
Devices ==
  <<[sn |-> "0", site_id |-> "1", solarbank |-> TRUE],
    [sn |-> "2", site_id |-> "1", solarbank |-> FALSE]>>

\* the exports before the loop over the sites
GlobalSteps ==
  <<"homepage", "site_list", "bind_devices", "user_devices", "charging_devices",
    "auto_upgrade">>

\* the exports of one site; the four PV channels are the steps of the inner loop
SiteSteps ==
  <<"scene", "site_detail", "wifi_list", "price", "device_parm_4", "device_parm_6",
    "get_upgrade_record", "ota_update", "energy_solarbank", "energy_solar_production",
    "energy_solar_production_pv1", "energy_solar_production_pv2",
    "energy_solar_production_pv3", "energy_solar_production_pv4",
    "energy_home_usage", "energy_grid">>

PvSteps ==
  {"energy_solar_production_pv1", "energy_solar_production_pv2",
   "energy_solar_production_pv3", "energy_solar_production_pv4"}

\* the exports of a solarbank only, and those of every device
SolarbankSteps == <<"solar_info", "compatible_process">>
DeviceSteps ==
  <<"power_cutoff", "device_fittings", "device_load", "ota_update", "device_attrs">>

\* the exports after the loops, and the two overviews
FinalSteps == <<"site_rules", "message_unread">>
OverviewSteps == <<"api_sites", "api_devices">>

\* a step: the stem of its file name, and the id randomized into the file name
StepRec(name, scope, id, idkey) == [name |-> name, scope |-> scope, id |-> id, idkey |-> idkey]

SiteProgram(s) ==
  [i \in 1..Len(SiteSteps) |->
     IF SiteSteps[i] = "ota_update"
     THEN StepRec("ota_update", "site", "", "")
     ELSE StepRec(SiteSteps[i], "site", s, "site_id")]

DeviceProgram(d) ==
  LET names == (IF d.solarbank THEN SolarbankSteps ELSE <<>>) \o DeviceSteps
  IN [i \in 1..Len(names) |-> StepRec(names[i], "device", d.sn, "_sn")]

RECURSIVE Flatten(_)
Flatten(progs) == IF progs = <<>> THEN <<>> ELSE Head(progs) \o Flatten(Tail(progs))

\* the export steps of the run, in program order
Program ==
  [i \in 1..Len(GlobalSteps) |-> StepRec(GlobalSteps[i], "global", "", "")]
    \o Flatten([i \in 1..Len(SiteIds) |-> SiteProgram(SiteIds[i])])
    \o Flatten([i \in 1..Len(Devices) |-> DeviceProgram(Devices[i])])
    \o [i \in 1..Len(FinalSteps) |-> StepRec(FinalSteps[i], "global", "", "")]
    \o [i \in 1..Len(OverviewSteps) |-> StepRec(OverviewSteps[i], "overview", "", "")]

\* every request wrapped in its own try / except
Guard_all(s) == TRUE

\* the request of the step is inside a try whose handler goes on with the run
Guard(s) == s.scope = "device" \/ (s.scope = "site" /\ s.name # "scene")

\* the documents a request can answer with: nothing, no data, the data of a
\* device, the same with a number for the serial, and, for the device
\* parameters and the device load, a schedule text naming a serial
Responses(s) ==
  {PyD(<<>>),
   PyD(<< <<"code", PyI(0)>>, <<"data", PyD(<<>>)>> >>)}
  \cup
  (IF s.name \in {"device_parm_4", "device_parm_6", "device_load"}
   THEN {PyD(<< <<"code", PyI(0)>>, <<"data", PyD(<< <<"param_data", PyS("0")>> >>)>> >>)}
   ELSE {PyD(<< <<"code", PyI(0)>>,
                <<"data", PyD(<< <<"device_sn", PyS("0")>>, <<"site_id", PyS("1")>> >>)>> >>),
         PyD(<< <<"code", PyI(0)>>, <<"data", PyD(<< <<"device_sn", PyI(5)>> >>)>> >>)})

RECURSIVE PairsOf(_, _)
\* <<original, written>> for the strings under sensitive keys of a document a
\* written as b
PairsOf(a, b) ==
  CASE a.t = "dict" ->
         UNION {IF Sensitive(a.c[i][1]) /\ a.c[i][2].t = "str"
                THEN {<<a.c[i][2].s, b.c[i][2].s>>}
                ELSE PairsOf(a.c[i][2], b.c[i][2]) : i \in 1..Len(a.c)}
    [] a.t = "list" -> UNION {PairsOf(a.c[i], b.c[i]) : i \in 1..Len(a.c)}
    [] OTHER -> {}

\* the file name of a step: f"{stem}_{randomize(id, idkey)}.json"
FileNames(s, enabled, tab) ==
  IF s.idkey = "" THEN {[file |-> s.name \o ".json", tab |-> tab, pairs |-> {}]}
  ELSE {[file |-> s.name \o "_" \o o.ret.s \o ".json", tab |-> o.tab,
         pairs |-> {<<s.id, o.ret.s>>}] : o \in randomize(PyS(s.id), s.idkey, enabled, tab)}

InitMain ==
  /\ RANDOMIZE \in BOOLEAN
  /\ RANDOMDATA = <<>>
  /\ call = NoCall
  /\ ncalls = 0
  /\ pool = "main"
  /\ wifilog = <<>>
  /\ pc = 1
  /\ result = "running"
  /\ step = NoStep
  /\ written = {}
  /\ emitted = NoSummary
  /\ mon = NoMonitor

Running == result = "running" /\ pc \in 1..Len(Program)

\* the step taken, with its outcome
Taken(outcome, file) == [name |-> Program[pc].name, idx |-> pc, outcome |-> outcome, file |-> file]

\* export(file, d) in main: an exception of check_keys leaves main
Exported(d, skip, file, tab, pairs, next) ==
  \E o \in export(d, skip, FALSE, RANDOMIZE, tab) :
    /\ RANDOMDATA' = o.tab
    /\ IF o.err # ""
       THEN /\ result' = "exception"
            /\ step' = Taken(o.err, file)
            /\ UNCHANGED <<pc, written>>
       ELSE /\ pc' = next
            /\ step' = Taken(IF o.saved THEN "saved" ELSE IF o.oserr THEN "unsaved" ELSE "empty",
                                file)
            /\ UNCHANGED result
            /\ written' = IF ~o.saved THEN written
                           ELSE written \cup pairs
                                  \cup (IF RANDOMIZE /\ ~skip THEN PairsOf(d, o.doc) ELSE {})

\* the request raised ClientError or AnkerSolixError: nothing is written
RequestFailed(tab, next) ==
  /\ RANDOMDATA' = tab
  /\ step' = Taken("failed", "")
  /\ UNCHANGED written
  /\ IF Guard(Program[pc])
     THEN pc' = next /\ UNCHANGED result
     ELSE result' = "False" /\ UNCHANGED pc

\* export(file name, await myapi.request(...)): the file name is evaluated first
RequestStep ==
  /\ Running
  /\ Program[pc].scope # "overview" /\ Program[pc].name \notin PvSteps
  /\ \E f \in FileNames(Program[pc], RANDOMIZE, RANDOMDATA) :
       \/ RequestFailed(f.tab, pc + 1)
       \/ \E d \in Responses(Program[pc]) : Exported(d, FALSE, f.file, f.tab, f.pairs, pc + 1)
  /\ UNCHANGED <<RANDOMIZE, call, ncalls, pool, wifilog, emitted, mon>>

\* the step after the loop over the PV channels
\* a loop over the channels that goes on with the next channel
AfterPv_next == pc + 1

\* the first step behind the loop over the channels (break)
AfterPv == CHOOSE j \in pc..Len(Program) :
             /\ Program[j].name \notin PvSteps
             /\ \A k \in pc..(j - 1) : Program[k].name \in PvSteps

\* one pass of the loop over the PV channels
PvStep ==
  /\ Running
  /\ Program[pc].name \in PvSteps
  /\ \/ RequestFailed(RANDOMDATA, AfterPv)
     \/ \E d \in Responses(Program[pc]) :
          IF ~Truthy(d) \/ ~Truthy(DictGet(d, "data"))
          THEN /\ pc' = AfterPv
               /\ step' = Taken("nodata", "")
               /\ UNCHANGED <<RANDOMDATA, result, written>>
          ELSE \E f \in FileNames(Program[pc], RANDOMIZE, RANDOMDATA) :
                 Exported(d, FALSE, f.file, f.tab, f.pairs, pc + 1)
  /\ UNCHANGED <<RANDOMIZE, call, ncalls, pool, wifilog, emitted, mon>>

\* export(file name, myapi.sites or myapi.devices, skip_randomize=True)
OverviewStep ==
  /\ Running
  /\ Program[pc].scope = "overview"
  /\ \E d \in Responses(Program[pc]) :
       Exported(d, TRUE, Program[pc].name \o ".json", RANDOMDATA, {}, pc + 1)
  /\ UNCHANGED <<RANDOMIZE, call, ncalls, pool, wifilog, emitted, mon>>

\* a summary that logs an empty table
Summary_empty(enabled, tab) == [done |-> enabled, tab |-> <<>>]

\* if RANDOMIZE: CONSOLE.info(json.dumps(RANDOMDATA, indent=2))
Summary(enabled, tab) == IF enabled THEN [done |-> TRUE, tab |-> tab] ELSE NoSummary

\* the summary and return True
Finish ==
  /\ result = "running" /\ pc = Len(Program) + 1
  /\ result' = "True"
  /\ emitted' = Summary(RANDOMIZE, RANDOMDATA)
  /\ UNCHANGED <<RANDOMIZE, RANDOMDATA, call, ncalls, pool, wifilog, pc, step, written, mon>>

NextMain == RequestStep \/ PvStep \/ OverviewStep \/ Finish

SpecMain == InitMain /\ [][NextMain]_vars

(***************************************************************************)
(* solarbank_monitor.main: the choice of the input source, the connection, *)
(* the refresh interval and the refresh loop.  mon holds the module        *)
(* globals USER, PASSWORD, COUNTRY, REFRESH, the locals of main, the       *)
(* position of main (at) and how it ended (result).  A local that has not  *)
(* been assigned is "unbound"; the clock counts seconds.  site and details  *)
(* tell which refreshes the last iteration ran, dev_at is the time of the  *)
(* last device details refresh (-1: none yet).                             *)
(***************************************************************************)
\* number of subfolders of examples and exports
MaxFolders == 2
\* iterations of the refresh loop in one run
MaxIter == 12
\* seconds an iteration may take on top of its REFRESH sleeps of one second
MaxLag == 1

\* str.isdigit on the answers of the model
Digits == "0123456789"

IsDigitChar(ch) == \E i \in 1..Len(Digits) : SubSeq(Digits, i, i) = ch

IsDigit(s) == Len(s) > 0 /\ \A i \in 1..Len(s) : IsDigitChar(SubSeq(s, i, i))

DigitVal(ch) == (CHOOSE i \in 1..Len(Digits) : SubSeq(Digits, i, i) = ch) - 1

RECURSIVE ToInt(_)
\* int(s) of a string of digits
ToInt(s) ==
  IF Len(s) = 0 THEN 0
  ELSE 10 * ToInt(SubSeq(s, 1, Len(s) - 1)) + DigitVal(SubSeq(s, Len(s), Len(s)))

\* the header: no credentials, or credentials pre-set
Headers ==
  { [USER |-> "", PASSWORD |-> "", COUNTRY |-> ""],
    [USER |-> "a@b.c", PASSWORD |-> "pw", COUNTRY |-> "DE"] }

\* answers to the prompts
Selections == {"", "x", "0", "1", "2", "3", "4"}
Texts == {"", "a"}
Intervals == {"", "5", "10", "600", "601", "x"}

InitMonitor ==
  /\ RANDOMIZE = TRUE
  /\ RANDOMDATA = <<>>
  /\ call = NoCall
  /\ ncalls = 0
  /\ pool = "monitor"
  /\ wifilog = <<>>
  /\ pc = 0 /\ result = "" /\ step = NoStep /\ written = {} /\ emitted = NoSummary
  /\ \E h \in Headers, n \in 0..MaxFolders :
       mon = [at |-> "source", result |-> "running",
              USER |-> h.USER, PASSWORD |-> h.PASSWORD, COUNTRY |-> h.COUNTRY,
              REFRESH |-> 30, preset |-> h.USER # "", prompted |-> FALSE,
              folders |-> n, use_file |-> "unbound", testfolder |-> 0, auth |-> "",
              clock |-> 0, now |-> 0, next_refr |-> 0, next_dev_refr |-> 0,
              iter |-> 0, site |-> FALSE, details |-> FALSE, dev_at |-> -1]

\* main returns False: the entry point logs "Aborted!"
ReturnFalse(m) == [m EXCEPT !.at = "done", !.result = "False"]

\* an exception leaves main: the entry point logs its type
Escapes(m, exc) == [m EXCEPT !.at = "done", !.result = exc]

\* the prompts for the account details after selection 0
Credentials(m, user, password, country) ==
  LET m1 == [m EXCEPT !.use_file = "False", !.USER = user]
      m2 == [m1 EXCEPT !.PASSWORD = password]
      m3 == [m2 EXCEPT !.COUNTRY = country]
  IN  IF user = "" THEN ReturnFalse(m1)
      ELSE IF password = "" THEN ReturnFalse(m2)
      ELSE IF country = "" THEN ReturnFalse(m3)
      ELSE [m3 EXCEPT !.at = "connect"]

\* the input source is asked for when USER is empty
Source ==
  /\ mon.at = "source"
  /\ \E selection \in Selections, user \in Texts, password \in Texts, country \in Texts :
       mon' = IF mon.USER = ""
              THEN LET m == [mon EXCEPT !.prompted = TRUE]
                   IN  IF ~IsDigit(selection) \/ ToInt(selection) < 0
                          \/ ToInt(selection) > mon.folders
                       THEN ReturnFalse(m)
                       ELSE IF ToInt(selection) = 0
                       THEN Credentials(m, user, password, country)
                       ELSE [m EXCEPT !.use_file = "True", !.testfolder = ToInt(selection),
                                      !.at = "connect"]
              ELSE [mon EXCEPT !.at = "connect"]
  /\ UNCHANGED <<RANDOMIZE, RANDOMDATA, call, ncalls, pool, wifilog, pc, result, step,
                 written, emitted>>

\* the test folder is set, or the account is authenticated
Connect ==
  /\ mon.at = "connect"
  /\ \E login \in {"OK", "CACHED", "error"} :
       mon' = IF mon.use_file = "unbound" THEN Escapes(mon, "UnboundLocalError")
              ELSE IF mon.use_file = "True"
              THEN [mon EXCEPT !.auth = "file", !.at = "interval"]
              ELSE IF login = "error" THEN ReturnFalse([mon EXCEPT !.auth = login])
              ELSE [mon EXCEPT !.auth = login, !.at = "interval"]
  /\ UNCHANGED <<RANDOMIZE, RANDOMDATA, call, ncalls, pool, wifilog, pc, result, step,
                 written, emitted>>

\* one answer to the prompt for the refresh interval
Interval ==
  /\ mon.at = "interval"
  /\ \E resp \in Intervals :
       LET started(m) == [m EXCEPT !.at = "loop", !.now = m.clock, !.next_refr = m.clock,
                                   !.next_dev_refr = m.clock]
       IN  mon' = IF resp = "" THEN started(mon)
                  ELSE IF IsDigit(resp) /\ 10 <= ToInt(resp) /\ ToInt(resp) <= 600
                  THEN started([mon EXCEPT !.REFRESH = ToInt(resp)])
                  ELSE mon
  /\ UNCHANGED <<RANDOMIZE, RANDOMDATA, call, ncalls, pool, wifilog, pc, result, step,
                 written, emitted>>

\* an iteration that schedules the next details refresh from now
Refresh_fromnow(m, sites, details, lag) ==
  LET now == m.clock
      site == m.next_refr <= now
      m1 == [m EXCEPT !.now = now, !.iter = @ + 1, !.site = site, !.details = FALSE]
      m2 == IF site THEN [m1 EXCEPT !.next_refr = now + m.REFRESH] ELSE m1
      dev == m2.next_dev_refr <= now
      m3 == IF dev THEN [m2 EXCEPT !.details = TRUE, !.dev_at = now,
                                   !.next_dev_refr = now + m.REFRESH * 9]
            ELSE m2
  IN  IF site /\ sites = "error" THEN ReturnFalse(m1)
      ELSE IF dev /\ details = "error"
      THEN ReturnFalse([m2 EXCEPT !.details = TRUE, !.dev_at = now])
      ELSE [m3 EXCEPT !.clock = now + m.REFRESH + lag]

\* one iteration of the refresh loop
Refresh(m, sites, details, lag) ==
  LET now == m.clock
      site == m.next_refr <= now
      m1 == [m EXCEPT !.now = now, !.iter = @ + 1, !.site = site, !.details = FALSE]
      m2 == IF site THEN [m1 EXCEPT !.next_refr = now + m.REFRESH] ELSE m1
      dev == m2.next_dev_refr <= now
      m3 == IF dev THEN [m2 EXCEPT !.details = TRUE, !.dev_at = now,
                                   !.next_dev_refr = m2.next_refr + m.REFRESH * 9]
            ELSE m2
  IN  IF site /\ sites = "error" THEN ReturnFalse(m1)
      ELSE IF dev /\ details = "error"
      THEN ReturnFalse([m2 EXCEPT !.details = TRUE, !.dev_at = now])
      ELSE [m3 EXCEPT !.clock = now + m.REFRESH + lag]

Iterate ==
  /\ mon.at = "loop"
  /\ mon.iter < MaxIter
  /\ \E sites \in {"ok", "error"}, details \in {"ok", "error"}, lag \in 0..MaxLag :
       mon' = Refresh(mon, sites, details, lag)
  /\ UNCHANGED <<RANDOMIZE, RANDOMDATA, call, ncalls, pool, wifilog, pc, result, step,
                 written, emitted>>

NextMonitor == Source \/ Connect \/ Interval \/ Iterate

SpecMonitor == InitMonitor /\ [][NextMonitor]_vars

(***************************************************************************)
(* Properties of randomize.                                                *)
(***************************************************************************)
\* the last call was randomize with anonymization enabled
Randomized == call.op = "randomize" /\ RANDOMIZE

\* the substitute the table held for the call's value before the call
Known == IF Hashable(call.val) THEN Get(call.pre, call.val, "") ELSE ""

\* every entry of table a that holds a substitute is the same in table b
Kept(a, b) == \A i \in 1..Len(a) : a[i].new # "" => Get(b, a[i].old, "") = a[i].new

\* C1 as stated: once the table holds an entry for a value (whatever the
\* substitute), a later call with that value returns the entry's substitute.
C1_Original ==
  (Randomized /\ Hashable(call.val) /\ HasKey(call.pre, call.val))
    => (call.err = "" /\ call.ret = PyS(Get(call.pre, call.val, "")))

\* what holds of the entries with a non-empty substitute: a later call with the
\* value returns the substitute under any key hint and leaves the table as it
\* is, no call changes such an entry, and a call under a blob key
\* (home_load_data, param_data) registers nothing
C1_StableSubstitute ==
  Randomized =>
    /\ Kept(call.pre, RANDOMDATA)
    /\ Known # "" => (call.err = "" /\ call.ret = PyS(Known) /\ RANDOMDATA = call.pre)
    /\ (call.key \in BlobKeys) => RANDOMDATA = call.pre

\* a value registered first, another value registered after it, and then the
\* first value again under another key hint
C1_Witness ==
  /\ Randomized /\ Len(call.pre) = 2
  /\ call.pre[1].old = call.val /\ call.pre[1].new = "A"
  /\ call.key = "wifi_name" /\ call.ret = PyS("A")

\* C2 as stated: randomize(v, "device_name") returns str(v) and leaves the
\* table unchanged, also when v was registered earlier under another key.
C2_Original ==
  (call.op = "randomize" /\ call.key = "device_name" /\ Hashable(call.val))
    => (call.err = "" /\ call.ret = PyS(PyStr(call.val)) /\ RANDOMDATA = call.pre)

\* C2: randomize(v, "device_name") generates and registers nothing: it leaves
\* the table unchanged and returns str(v), unless the table already holds a
\* non-empty substitute for v, which is then returned instead.
C2_DeviceNameNotGenerated ==
  (call.op = "randomize" /\ call.key = "device_name" /\ Hashable(call.val))
    => /\ call.err = "" /\ call.gen = "" /\ RANDOMDATA = call.pre
       /\ call.ret = PyS(IF RANDOMIZE /\ Known # "" THEN Known ELSE PyStr(call.val))

\* a device name that is returned as it is while the table holds other entries
C2_Witness ==
  /\ Randomized /\ call.key = "device_name" /\ call.pre # <<>>
  /\ call.val = PyS("0") /\ call.ret = PyS("0")

\* the lengths of the "-"-separated segments of a string
SegLens(s) == [i \in 1..Len(Split(s, "-")) |-> Len(Split(s, "-")[i])]

\* C4 as stated: a value with "-" newly substituted by the "_id" strategy
\* gets a substitute with as many "-"-separated segments as the original,
\* each as long as the original's.
C4_Original ==
  (Randomized /\ call.gen = "id" /\ call.err = "" /\ Contains(call.val.s, "-"))
    => SegLens(Get(RANDOMDATA, call.val, "")) = SegLens(call.val.s)

\* the same for values whose first segment is not empty
C4_FirstSegmentNonEmpty ==
  (Randomized /\ call.gen = "id" /\ call.err = "" /\ Contains(call.val.s, "-")
     /\ Split(call.val.s, "-")[1] # "")
    => SegLens(Get(RANDOMDATA, call.val, "")) = SegLens(call.val.s)

C4_Witness ==
  /\ Randomized /\ call.gen = "id" /\ call.val = PyS("0-1")
  /\ Get(RANDOMDATA, call.val, "") = "1-0"

\* the positions of the colons of a string
ColonsAt(s) == {i \in 1..Len(s) : SubSeq(s, i, i) = ":"}

\* the Bluetooth strategy has just substituted a value with colons
BtDelimited ==
  /\ Randomized /\ call.gen = "bt" /\ call.err = ""
  /\ Contains(call.val.s, ":")

\* the substitute has its colons where the value has them, and without them
\* it is the substitute of the value without colons
ColonsOnly(val, sub, tab) ==
  /\ ColonsAt(sub) = ColonsAt(val)
  /\ HasKey(tab, PyS(Replace(val, ":", "")))
  /\ Replace(sub, ":", "") = Get(tab, PyS(Replace(val, ":", "")), "")

\* C5 as stated: every value with colons substituted by the Bluetooth
\* strategy, and the same value without colons, get substitutes that differ
\* only by the colons, which stand where the value has them.
C5_Original ==
  BtDelimited => ColonsOnly(call.val.s, Get(RANDOMDATA, call.val, ""), RANDOMDATA)

\* C6: the n-th wifi name generated in a run is "wifi-network-n".
C6_WifiSequential ==
  \A n \in 1..Len(wifilog) : wifilog[n] = "wifi-network-" \o IntStr(n)

\* two wifi names generated with another substitution between them
C6_Witness ==
  /\ Len(wifilog) = 2 /\ Len(RANDOMDATA) = 3
  /\ ~Contains(RANDOMDATA[2].new, "wifi-network-")
  /\ call.gen = "wifi" /\ call.ret = PyS("wifi-network-2")

RECURSIVE Simultaneous(_, _)
\* text with every occurrence of an original of the table (trace ids and the
\* empty string left out) replaced by its substitute, in one pass from left
\* to right; where several originals start, the first of the table is taken
Simultaneous(text, tab) ==
  IF text = "" THEN ""
  ELSE LET hits == {i \in 1..Len(tab) :
                      /\ tab[i].old.s # "" /\ Len(tab[i].old.s) # TraceIdLen
                      /\ Len(tab[i].old.s) <= Len(text)
                      /\ SubSeq(text, 1, Len(tab[i].old.s)) = tab[i].old.s}
       IN IF hits = {}
          THEN SubSeq(text, 1, 1) \o Simultaneous(Tail(text), tab)
          ELSE LET i == CHOOSE j \in hits : \A k \in hits : j <= k
               IN tab[i].new
                    \o Simultaneous(SubSeq(text, Len(tab[i].old.s) + 1, Len(text)), tab)

\* a call for a text under a blob key, the table holding strings only
BlobCall ==
  /\ Randomized /\ call.key \in BlobKeys /\ call.val.t = "str"
  /\ \A i \in 1..Len(call.pre) : call.pre[i].old.t = "str"

C7_NoEntryAdded == (BlobCall /\ call.gen = "blob") => (call.err = "" /\ RANDOMDATA = call.pre)

\* the key hint carries a serial marker
SerialKey(key) == Contains(key, "_sn") \/ key = "sn"

\* every character of s is an uppercase letter or a digit
UpperAlnum(s) ==
  \A i \in 1..Len(s) : Contains("ABCDEFGHIJKLMNOPQRSTUVWXYZ0123456789", SubSeq(s, i, i))

\* C17: for a non-empty string not yet in the table and a key hint containing
\* "_sn" or equal to "sn", randomize returns a substitute of the length of the
\* original made of uppercase letters and digits, and registers it.
C17_SerialSubstitute ==
  (Randomized /\ SerialKey(call.key) /\ call.val.t = "str" /\ call.val.s # ""
     /\ ~HasKey(call.pre, call.val))
    => /\ call.err = "" /\ call.ret.t = "str"
       /\ Len(call.ret.s) = Len(call.val.s) /\ UpperAlnum(call.ret.s)
       /\ RANDOMDATA = Append(call.pre, [old |-> call.val, new |-> call.ret.s])

\* a four-character serial substituted under a key hint that contains "_sn"
C17_Witness ==
  /\ Randomized /\ call.key = "main_sn_x" /\ call.val = PyS("AB12")
  /\ call.pre # <<>> /\ ~HasKey(call.pre, call.val)
  /\ call.ret = PyS("ABBA") /\ Get(RANDOMDATA, call.val, "") = "ABBA"

\* C14: with RANDOMIZE false randomize(v, k) returns str(v) and leaves the
\* table unchanged, for every v and k and also when the table holds a
\* substitute for v.
C14_DisabledReturnsStr ==
  (call.op = "randomize" /\ ~call.enabled)
    => (call.err = "" /\ call.ret = PyS(PyStr(call.val)) /\ RANDOMDATA = call.pre)

\* a value registered while RANDOMIZE was true and asked for again after
\* RANDOMIZE became false
C14_Witness ==
  /\ call.op = "randomize" /\ ~call.enabled /\ call.val = PyS("0")
  /\ Get(call.pre, call.val, "") = "A" /\ call.ret = PyS("0")

(***************************************************************************)
(* Properties of check_keys and export.                                    *)
(***************************************************************************)
\* the last call was an export that ran check_keys on its document (and did not
\* rename keys)
Sanitized ==
  call.op = "export" /\ RANDOMIZE /\ ~call.skip /\ ~call.randomkeys /\ Truthy(call.val)

RECURSIVE NonStringSensitive(_)
\* some sensitive key of the document holds a value that is not a string
NonStringSensitive(v) ==
  CASE v.t = "dict" ->
         \E i \in 1..Len(v.c) :
           \/ Sensitive(v.c[i][1]) /\ v.c[i][2].t # "str"
           \/ NonStringSensitive(v.c[i][2])
    [] v.t = "list" -> \E i \in 1..Len(v.c) : NonStringSensitive(v.c[i])
    [] OTHER -> FALSE

RECURSIVE NonStringKept(_, _)
\* every non-string value under a sensitive key of a is the same in b
NonStringKept(a, b) ==
  CASE a.t = "dict" ->
         /\ b.t = "dict" /\ Len(b.c) = Len(a.c)
         /\ \A i \in 1..Len(a.c) :
              IF Sensitive(a.c[i][1]) /\ a.c[i][2].t # "str"
              THEN b.c[i][2] = a.c[i][2]
              ELSE NonStringKept(a.c[i][2], b.c[i][2])
    [] a.t = "list" ->
         /\ b.t = "list" /\ Len(b.c) = Len(a.c)
         /\ \A i \in 1..Len(a.c) : NonStringKept(a.c[i], b.c[i])
    [] OTHER -> TRUE

\* C8 as stated: a non-string value under a sensitive key raises no exception
\* in check_keys and randomize, and comes back as the original value.
C8_Original ==
  (Sanitized /\ NonStringSensitive(call.val))
    => (call.err = "" /\ NonStringKept(call.val, call.ret))

\* C9 as stated: check_keys ends without error on every JSON-compatible
\* document (here: those whose sensitive keys hold strings).
C9_Original ==
  (Sanitized /\ ~NonStringSensitive(call.val)) => call.err = ""

RECURSIVE Frame(_, _)
\* document b has the structure of document a (the keys of every mapping in
\* their order, the length and order of every sequence), and every leaf of a
\* that is not directly under a sensitive key has its value and type in b
Frame(a, b) ==
  CASE a.t = "dict" ->
         /\ b.t = "dict" /\ Len(b.c) = Len(a.c)
         /\ \A i \in 1..Len(a.c) :
              /\ b.c[i][1] = a.c[i][1]
              /\ Sensitive(a.c[i][1]) \/ Frame(a.c[i][2], b.c[i][2])
    [] a.t = "list" ->
         /\ b.t = "list" /\ Len(b.c) = Len(a.c)
         /\ \A i \in 1..Len(a.c) : Frame(a.c[i], b.c[i])
    [] OTHER -> b = a

\* C16: after check_keys of a document every scalar leaf whose key matches no
\* sensitive pattern has its original value and type, and the structure of the
\* document is unchanged; only values directly under matching keys differ.
C16_UnmatchedLeavesKept ==
  (Sanitized /\ call.err = "") => Frame(call.val, call.ret)

\* a nested document with numbers, a boolean, null and a list, in which the
\* site id and the serial were replaced
C16_Witness ==
  /\ Sanitized /\ call.err = "" /\ call.ret # call.val
  /\ DictHas(call.val, "data") /\ DictHas(DictGet(call.val, "data"), "power")
  /\ DictGet(DictGet(call.ret, "data"), "power") = PyF("1.5", 1)
  /\ DictGet(DictGet(call.ret, "data"), "site_id") # PyS("0-1")

\* the document of the last export is the empty or the missing one
EmptyDoc == call.val \in {PyNone, PyD(<<>>)}

\* C12 as stated: with skip_randomize=True every document, the empty one
\* included, is written as its direct two-space-indented serialization
\* (a write that fails with an I/O error set aside).
C12_Original ==
  (call.op = "export" /\ call.skip /\ ~call.oserr)
    => (call.saved /\ call.content = JsonDump(call.val, ""))

\* C12: with skip_randomize=True every non-empty document is handed to the
\* write unchanged, whatever RANDOMIZE and the substitution table are: no
\* exception is raised, the table is left as it is, and the file, if the write
\* succeeds, holds the two-space-indented serialization of the original.
C12_SkipWritesOriginal ==
  (call.op = "export" /\ call.skip /\ ~EmptyDoc)
    => /\ call.err = "" /\ RANDOMDATA = call.pre
       /\ call.saved \/ call.oserr
       /\ call.saved => call.content = JsonDump(call.val, "")

\* a document with a serial written as it is while the table holds a substitute
\* for that serial
C12_Witness ==
  /\ call.op = "export" /\ call.skip /\ RANDOMIZE /\ call.saved
  /\ HasKey(call.pre, PyS("0"))
  /\ call.val = PyD(<< <<"device_sn", PyS("0")>>, <<"device_name", PyS("K")>> >>)
  /\ call.content = "{\n  \"device_sn\": \"0\",\n  \"device_name\": \"K\"\n}"

\* C13: export of an empty or missing document writes no file, does not run
\* check_keys and leaves the substitution table unchanged.
C13_EmptyIsNoOp ==
  (call.op = "export" /\ EmptyDoc)
    => /\ call.err = "" /\ ~call.saved /\ ~call.oserr /\ call.content = ""
       /\ RANDOMDATA = call.pre

\* an empty document exported by an anonymizing run whose table holds entries
C13_Witness ==
  /\ call.op = "export" /\ call.val = PyD(<<>>) /\ RANDOMIZE /\ ~call.skip
  /\ call.pre # <<>> /\ ~call.saved

\* the key a key is renamed to: its substitute when the table holds the key
NewKey(k, tab) == IF HasKey(tab, PyS(k)) THEN Get(tab, PyS(k), "") ELSE k

\* mapping b is mapping a with its keys renamed and its values kept
KeysMoved(a, b, tab) ==
  /\ b.t = "dict" /\ Len(b.c) = Len(a.c)
  /\ \A i \in 1..Len(a.c) :
       /\ DictHas(b, NewKey(a.c[i][1], tab))
       /\ DictGet(b, NewKey(a.c[i][1], tab)) = a.c[i][2]

\* document b is document a with the keys of the root and the keys one level
\* below the root renamed, and nothing else changed
KeysRenamed(a, b, tab) ==
  /\ b.t = "dict" /\ Len(b.c) = Len(a.c)
  /\ \A i \in 1..Len(a.c) :
       LET k == NewKey(a.c[i][1], tab)
       IN /\ DictHas(b, k)
          /\ IF a.c[i][2].t = "dict" THEN KeysMoved(a.c[i][2], DictGet(b, k), tab)
             ELSE DictGet(b, k) = a.c[i][2]

\* the last call was an export in key-renaming mode of a document that
\* check_keys sanitized without error
RenameCall ==
  /\ call.op = "export" /\ call.enabled /\ ~call.skip /\ call.randomkeys /\ ~EmptyDoc
  /\ \A o \in check_keys(call.val, TRUE, call.pre) : o.err = ""

\* C15 as stated: in key-renaming mode every key at the root and every key one
\* level below the root that the table holds is renamed to its substitute, its
\* value kept, and no other key is renamed.
C15_Original ==
  RenameCall => (call.err = "" /\ KeysRenamed(call.mid, call.ret, RANDOMDATA))

(***************************************************************************)
(* Properties of the export run.                                           *)
(***************************************************************************)
\* the serials of the devices
Serials == {Devices[i].sn : i \in 1..Len(Devices)}

\* C3 as stated: a device serial is written as the same substitute wherever it
\* occurs: as the value of a serial key, in a file name, as the text of a blob.
C3_Original ==
  RANDOMIZE =>
    \A x \in written, y \in written : (x[1] \in Serials /\ x[1] = y[1]) => x[2] = y[2]

\* the requests main makes outside every inner try
Unguarded ==
  {"homepage", "site_list", "bind_devices", "user_devices", "charging_devices",
   "auto_upgrade", "scene", "site_rules", "message_unread"}

\* C10 as stated: a failed request skips the export of that document only, and
\* the run goes on with the next export step.
C10_Original ==
  step.outcome = "failed" => (result = "running" /\ pc = step.idx + 1)

\* C10: a failed request that is inside an inner try (the per-site exports from
\* site_detail on and the per-device exports) skips that document only and the
\* run goes on with the next export step, which for a PV channel is the step
\* after the PV channels of the site; a failed request outside every inner try
\* (homepage, site_list, bind_devices, user_devices, charging_devices,
\* auto_upgrade, scene info, site_rules, message_unread) ends the run: main
\* returns False and no later export is attempted.
C10_FailureLocalInsideTry ==
  step.outcome = "failed" =>
    IF step.name \in Unguarded
    THEN result = "False" /\ pc = step.idx
    ELSE /\ result = "running"
         /\ IF step.name \in PvSteps
            THEN pc > step.idx /\ Program[pc].name = "energy_home_usage"
                 /\ \A k \in step.idx..(pc - 1) : Program[k].name \in PvSteps
            ELSE pc = step.idx + 1

\* the request for the site detail failed and the run goes on with the wifi list
C10_Witness ==
  /\ step.outcome = "failed" /\ step.name = "site_detail"
  /\ result = "running" /\ Program[pc].name = "wifi_list"

\* table tab holds, for every string that a file or a file name shows replaced,
\* the entry from the original to the text written for it
Covers(tab) ==
  \A p \in written : p[1] # p[2] => (HasKey(tab, PyS(p[1])) /\ Get(tab, PyS(p[1]), "") = p[2])

\* C18 as stated: every anonymizing run in which a substitution was performed
\* has, at its end, emitted the table with an entry for every value replaced,
\* also when the run ended early because a request failed.
C18_Original ==
  (RANDOMIZE /\ result \in {"True", "False"} /\ RANDOMDATA # <<>>)
    => (emitted.done /\ emitted.tab = RANDOMDATA /\ Covers(emitted.tab))

\* C18: every anonymizing run that completes (main returns True) has emitted
\* the substitution table as it is at the end of the run, and the table holds
\* the entry of every value replaced in a written file or file name; a run
\* that ends early, because a request outside the inner try blocks failed
\* (main returns False) or because an exception left main, emits no table.
C18_CompletedRunEmitsTable ==
  /\ (RANDOMIZE /\ result = "True")
       => (emitted.done /\ emitted.tab = RANDOMDATA /\ Covers(emitted.tab))
  /\ result # "True" => ~emitted.done

\* a completed run that replaced the serial in a written file
C18_Witness ==
  /\ RANDOMIZE /\ result = "True" /\ emitted.done
  /\ \E p \in written : p[1] = "0" /\ p[2] = "A" /\ Get(emitted.tab, PyS("0"), "") = "A"

\* the write of the last export step failed with an OSError
WriteFailed == step.outcome \in {"unsaved", "OSError"}

\* C11: when open or json.dump fails with an OSError, export returns normally
\* and the run goes on with the next export step (after the last one, with the
\* summary).
C11_WriteFailureContinues ==
  WriteFailed =>
    /\ step.outcome = "unsaved" /\ pc = step.idx + 1
    /\ result = "running" \/ (result = "True" /\ step.idx = Len(Program))

\* the site list could not be written and the run is at the next export
C11_Witness ==
  /\ step.outcome = "unsaved" /\ step.name = "site_list"
  /\ result = "running" /\ Program[pc].name = "bind_devices"

(***************************************************************************)
(* C19: with USER pre-set in the header, the monitor skips the prompts,    *)
(* goes on to the cloud authentication and enters the refresh loop; it     *)
(* never ends with the error of an unset variable.                         *)
(***************************************************************************)
\* the monitor has left the connection step
Connected == mon.at \in {"interval", "loop", "done"}

\* C19 as stated: once past the connection step, a monitor whose USER is
\* pre-set has asked nothing, has tried the cloud authentication, and has
\* not ended with the error of an unbound variable
C19_Original ==
  (mon.at # "" /\ mon.preset /\ Connected) =>
    /\ ~mon.prompted
    /\ mon.auth \in {"OK", "CACHED", "error"}
    /\ mon.result # "UnboundLocalError"

(***************************************************************************)
(* C20: a key hint that carries several markers gets the strategy of the   *)
(* first marker in the order device_name (exempt), serial, bt_ble_, _id,   *)
(* wifi_name, blob key, default.                                           *)
(***************************************************************************)
\* the markers of a key hint, in the order of the claim
Markers(key) ==
  << <<"serial", Contains(key, "_sn") \/ key = "sn">>,
     <<"bt", Contains(key, "bt_ble_")>>,
     <<"id", Contains(key, "_id")>>,
     <<"wifi", Contains(key, "wifi_name")>>,
     <<"blob", key = "home_load_data" \/ key = "param_data">>,
     <<"default", TRUE>> >>

FirstMarker(key) ==
  LET m == Markers(key)
  IN  m[CHOOSE i \in 1..Len(m) : m[i][2] /\ \A j \in 1..(i - 1) : ~m[j][2]][1]

\* number of markers other than the default that the key hint carries
MarkerCount(key) == Cardinality({i \in 1..5 : Markers(key)[i][2]})

MadeOf(s, alphabet) == \A i \in 1..Len(s) : Contains(alphabet, SubSeq(s, i, i))

\* the substitute has the form the strategy produces for the value
FormOf(strategy, val, ret) ==
  CASE strategy = "serial" ->
         Len(ret) = Len(val) /\ MadeOf(ret, "ABCDEFGHIJKLMNOPQRSTUVWXYZ0123456789")
    [] strategy = "bt" -> MadeOf(ret, "0123456789ABCDEF:")
    [] strategy = "id" -> MadeOf(ret, "0123456789abcdef-")
    [] strategy = "wifi" -> Len(ret) > 13 /\ SubSeq(ret, 1, 13) = "wifi-network-"
    [] strategy = "blob" -> TRUE
    [] strategy = "default" ->
         /\ Len(ret) = Len(val)
         /\ MadeOf(ret, "abcdefghijklmnopqrstuvwxyzABCDEFGHIJKLMNOPQRSTUVWXYZ")

\* the call has to generate a substitute: anonymization is on, the value is
\* a non-empty string without a substitute in the table
Generating ==
  /\ call.op = "randomize" /\ call.enabled
  /\ call.val.t = "str" /\ call.val.s # "" /\ Known = ""

\* the Bluetooth strategy found the value without its colons in the table
\* and built the substitute from that entry
Reused ==
  call.gen = "bt" /\ Get(call.pre, PyS(Replace(call.val.s, ":", "")), "") # ""

\* C20: a call under the exact key hint device_name generates nothing; any
\* other generating call takes the branch of the first marker of its key
\* hint: the blob strategy registers nothing, every other one registers a
\* substitute of its own form and returns it (or registers the empty string
\* and returns the value; the Bluetooth strategy may build the substitute
\* from a table entry instead), unless the branch raises
C20_FirstMarkerWins ==
  Generating =>
    IF call.key = "device_name"
    THEN call.gen = "" /\ call.ret = call.val /\ RANDOMDATA = call.pre
    ELSE /\ call.gen = FirstMarker(call.key)
         /\ call.err = "" =>
              /\ call.ret.t = "str"
              /\ LET sub == Get(RANDOMDATA, call.val, "")
                 IN  IF call.gen = "blob" THEN sub = ""
                     ELSE \/ sub = "" /\ call.ret = call.val
                          \/ sub = call.ret.s /\ FormOf(call.gen, call.val.s, sub)
                          \/ sub = call.ret.s /\ Reused

\* a value with a dash under bt_ble_id, which carries the markers bt_ble_
\* and _id, got the Bluetooth strategy: the dash is replaced too
C20_Witness ==
  /\ Generating /\ call.key = "bt_ble_id" /\ MarkerCount(call.key) = 2
  /\ call.val = PyS("-") /\ call.gen = "bt" /\ call.ret = PyS("0")
  /\ call.pre # <<>>

(***************************************************************************)
(* C21: the exports of the PV channels 1 to 4 of a site are attempted in   *)
(* ascending order and stop at the first channel whose request fails or    *)
(* returns no data; the run then goes on with home_usage.                  *)
(***************************************************************************)
\* the channel of a PV step
Channel(name) == ToInt(SubSeq(name, Len(name), Len(name)))

\* the site of a step of the run
SiteOf(s) == Program[s.idx].id

\* export was called with the data of the channel
PvExported(s) == s.name \in PvSteps /\ s.outcome \in {"saved", "unsaved"}

\* the request of the channel failed or returned no data
PvStopped(s) == s.name \in PvSteps /\ s.outcome \in {"failed", "nodata"}

\* C21: a PV step is taken right after the step before it in the run, and
\* channel k > 1 only after export was called for channel k-1 of the same
\* site; after a channel whose request failed or returned no data, main is
\* still running and the next step taken is home_usage of the same site
C21_PvAscendingUntilStop ==
  [][ /\ (step'.idx # step.idx /\ step'.name \in PvSteps) =>
           /\ step.idx = step'.idx - 1
           /\ IF Channel(step'.name) = 1
              THEN step.name = "energy_solar_production"
              ELSE /\ PvExported(step)
                   /\ Channel(step.name) = Channel(step'.name) - 1
                   /\ SiteOf(step) = SiteOf(step')
      /\ PvStopped(step') =>
           /\ result' = "running"
           /\ Program[pc'].name = "energy_home_usage"
           /\ Program[pc'].id = SiteOf(step')
      /\ (PvStopped(step) /\ step'.idx # step.idx) =>
           step'.name = "energy_home_usage" /\ SiteOf(step') = SiteOf(step)
    ]_vars

\* channel 3 of the second site returned no data, after the channels of the
\* first site: home_usage of the second site is next
C21_Witness ==
  /\ step.name = "energy_solar_production_pv3" /\ step.outcome = "nodata"
  /\ SiteOf(step) = "3"
  /\ result = "running" /\ Program[pc].name = "energy_home_usage"

(***************************************************************************)
(* C22: in the monitor loop both refreshes run in the first iteration, a   *)
(* site refresh runs in every iteration, and a device details refresh runs *)
(* no earlier than 10*REFRESH seconds after the previous one and only in   *)
(* an iteration that runs a site refresh.                                  *)
(***************************************************************************)
\* the step is an iteration of the refresh loop
Iterated == mon.at = "loop" /\ mon'.iter = mon.iter + 1

\* C22: every iteration runs the site refresh; an iteration after the first
\* starts at least REFRESH seconds after the one before; the first
\* iteration runs the device details refresh too, unless the site refresh
\* has ended the monitor; a device details refresh runs together with a
\* site refresh and at least 10*REFRESH seconds after the previous one
C22_RefreshesStaggered ==
  [][ Iterated =>
        /\ mon'.site
        /\ mon.iter > 0 => mon'.now - mon.now >= mon.REFRESH
        /\ (mon.iter = 0 /\ mon'.at = "loop") => mon'.details
        /\ mon'.details =>
             /\ mon'.site
             /\ mon.dev_at >= 0 => mon'.now - mon.dev_at >= 10 * mon.REFRESH
             /\ mon'.dev_at = mon'.now
        /\ ~mon'.details => mon'.dev_at = mon.dev_at
    ]_vars

\* the second device details refresh, in an iteration that started later
\* than 10*REFRESH seconds after the first
C22_Witness ==
  /\ mon.at = "loop" /\ mon.iter = 11 /\ mon.site /\ mon.details
  /\ mon.REFRESH = 10 /\ mon.now > 10 * mon.REFRESH

(***************************************************************************)
(* C23: export with skip_randomize=True, and any export while              *)
(* anonymization is disabled, leaves the passed document and the           *)
(* substitution table as they are.                                         *)
(***************************************************************************)
\* the export call does not sanitize
Unsanitized == call.op = "export" /\ (call.skip \/ ~call.enabled)

\* C23: an export call with skip_randomize=True or with anonymization
\* disabled raises nothing and leaves the table as it was; the document is
\* after the call what it was before, and it is what the call hands to
\* json.dump (an empty document is not handed on at all)
C23_SkipLeavesDocAndTable ==
  Unsanitized =>
    /\ call.err = "" /\ RANDOMDATA = call.pre
    /\ IF EmptyDoc THEN ~call.saved /\ ~call.oserr /\ ~Truthy(call.mid)
       ELSE call.mid = call.val /\ call.ret = call.val

\* with anonymization disabled, a document with sensitive keys and a value
\* that is not a string went through export with randomkeys=True unchanged
C23_Witness ==
  /\ call.op = "export" /\ ~call.enabled /\ ~call.skip /\ call.randomkeys
  /\ call.saved /\ call.val.t = "dict" /\ call.mid = call.val
  /\ \E i \in 1..Len(call.val.c) :
       Sensitive(call.val.c[i][1]) /\ call.val.c[i][2].t # "str"

(***************************************************************************)
(* C24: the substitution table only grows: no entry is removed, and an     *)
(* entry with a non-empty substitute keeps it.                             *)
(***************************************************************************)
\* every entry of table a is in table b at the same place, with the same
\* substitute unless the substitute in a is empty
Grown(a, b) ==
  /\ Len(b) >= Len(a)
  /\ \A i \in 1..Len(a) :
       /\ b[i].old = a[i].old
       /\ a[i].new # "" => b[i].new = a[i].new

\* C24: every step of a run of randomize and export calls leaves each entry
\* of the table in place, and leaves its substitute alone unless it is empty
C24_TableOnlyGrows == [][Grown(RANDOMDATA, RANDOMDATA')]_vars

\* the Bluetooth strategy met the colon-stripped value with a substitute in
\* the table: that entry is kept and the entry of the value is added
C24_Witness ==
  /\ call.op = "randomize" /\ call.gen = "bt" /\ call.err = ""
  /\ Contains(call.val.s, ":")
  /\ Get(call.pre, PyS(Replace(call.val.s, ":", "")), "") # ""
  /\ Get(RANDOMDATA, PyS(Replace(call.val.s, ":", "")), "")
       = Get(call.pre, PyS(Replace(call.val.s, ":", "")), "")
  /\ Len(RANDOMDATA) = Len(call.pre) + 1

(***************************************************************************)
(* C25: every entry of the table for a non-empty string maps it to a       *)
(* non-empty substitute other than the original, and no two originals      *)
(* share a substitute.                                                     *)
(***************************************************************************)
\* the substitute of entry i is not empty and is not the original
Substituted(tab, i) ==
  (tab[i].old.t = "str" /\ tab[i].old.s # "") =>
    tab[i].new # "" /\ tab[i].new # tab[i].old.s

\* no two entries hold the same substitute
Injective(tab) ==
  \A i, j \in 1..Len(tab) : tab[i].new = tab[j].new => i = j

\* C25 as stated: the table maps every non-empty string to a non-empty
\* substitute that differs from it, and distinct originals to distinct
\* substitutes
C25_Original ==
  /\ \A i \in 1..Len(RANDOMDATA) : Substituted(RANDOMDATA, i)
  /\ Injective(RANDOMDATA)

====
